---------------------------- MODULE Spec2Model ----------------------------
(***************************************************************************)
(* A model of the lighthouses bot of src/main.py: the join loop of         *)
(* BotComs.wait_to_join_game, the serving endpoint of                      *)
(* BotComs.start_listening with the three responders of ClientServer, and  *)
(* the decision procedure BotGame.new_turn_action.                         *)
(*                                                                         *)
(* Several next-state relations are given over the same variables.  Spec  *)
(* handles one inbound call at a time (the protocol's expected delivery:   *)
(* each handler runs from entry to return as one step).  ConcSpec lets the *)
(* workers of the serving endpoint's thread pool run new_turn_action       *)
(* statement by statement, interleaved.  TraceSpec and ReplaySpec run      *)
(* new_turn_action alone on sequences of observations and keep what each   *)
(* call returned.                                                          *)
(***************************************************************************)
EXTENDS Integers, Sequences, FiniteSets, TLC

(***************************************************************************)
(* Bounds of the model and the small sets the inputs are drawn from.       *)
(***************************************************************************)
\* Turn calls handled before the model stops accepting more (caps countT).
MaxTurns == 4
\* Failed join attempts before the model stops failing more.
MaxFail == 2
\* Lighthouses in one turn observation.
MaxLh == 2

\* deque(maxlen=3)
VisitedMaxLen == 3

\* The grid the bot moves on, and the cells of it that hold a lighthouse.
Xs == 0..2
Ys == 0..1
Pos == Xs \X Ys
LhPos == {<<0, 0>>, <<2, 0>>, <<0, 1>>, <<2, 1>>}
Energies == {0, 7}
\* Identifiers the game server may hand out at Join.
PlayerIds == {"p1", "p2"}
\* Owners a lighthouse may report; "nobody" is an unowned lighthouse.
Owners == {"p1", "nobody"}
\* Requests of InitialState.
Snapshots == [Snapshot : {"map"}]

\* Workers of the endpoint's thread pool that the model runs.
Workers == {"w1", "w2"}
\* Turn calls ConcSpec hands to the workers.
MaxCalls == 3

\* Observations TraceSpec feeds to its process.
MaxTrace == 3
\* Observations ReplaySpec feeds to its two processes.
MaxReplay == 2
\* The processes of ReplaySpec: two runs of the bot on the same observations.
Runs == {"a", "b"}

\* Python's None, for a position-valued and for an id-valued field.
None == <<>>
NoId == "none"

VARIABLES
  pc,              \* main: "joining" (in wait_to_join_game's loop), "joined"
                   \* (it returned), "listening" (grpc_server.start() done)
  reachable,       \* environment: the game server answers Join
  failed,          \* "Could not join game" notices printed by the loop
  joined,          \* successful client.Join calls of the loop
  returned,        \* the PlayerID of the server's last Join answer
  bot_id,          \* BotComs.bot_id
  player_num,      \* BotGame.player_num
  initial_state,   \* BotGame.initial_state
  visited,         \* BotGame.visited
  target,          \* BotGame.target
  countT,          \* BotGame.countT
  turn_states,     \* len(BotGame.turn_states): the list is only appended to
  method,          \* the responder of the inbound call in flight, "none"
                   \* between calls
  request,         \* its request
  response,        \* the value its handler returned
  entry,           \* visited and target as that handler found them
  wk,              \* ConcSpec: each pool worker's place in new_turn_action
                   \* and its local variables
  started,         \* ConcSpec: Turn calls handed to a worker so far
  feed,            \* TraceSpec, ReplaySpec: the observations the game has
                   \* produced, in order
  run              \* TraceSpec, ReplaySpec: each run's BotGame (bg), the
                   \* state it was built in (first) and what each of its
                   \* calls returned and left (trail)

vars == <<pc, reachable, failed, joined, returned, bot_id, player_num,
          initial_state, visited, target, countT, turn_states,
          method, request, response, entry, wk, started, feed, run>>

joinVars == <<reachable, failed, joined, returned, bot_id>>
botVars == <<player_num, initial_state, visited, target, countT, turn_states>>
rpcVars == <<method, request, response, entry>>
concVars == <<wk, started>>
replayVars == <<feed, run>>

(***************************************************************************)
(* Turn observations.                                                      *)
(***************************************************************************)
Lighthouse == [Position : LhPos, Owner : Owners]

\* Lighthouse lists of a turn with the bot at pos: the game reports each
\* lighthouse once, in any order.  The program reads the owner of the
\* lighthouse the bot stands on only (line 59), so that one takes every
\* owner and the others are reported unowned.
LighthouseLists(pos) ==
  UNION {{l \in [1..n -> Lighthouse] :
            /\ \A i, j \in 1..n : i # j => l[i].Position # l[j].Position
            /\ \A i \in 1..n : l[i].Position # pos => l[i].Owner = "nobody"}
         : n \in 0..MaxLh}

NewTurn ==
  UNION {[Position : {pos}, Energy : Energies, Lighthouses : LighthouseLists(pos)]
         : pos \in Pos}

(***************************************************************************)
(* BotGame.new_turn_action, as the code computes it.                       *)
(***************************************************************************)
Abs(n) == IF n < 0 THEN -n ELSE n

manhattan_distance(a, b) == Abs(a[1] - b[1]) + Abs(a[2] - b[2])

Contains(s, e) == \E i \in 1..Len(s) : s[i] = e

\* The keys of the dict built at line 40, in insertion order: a position
\* listed again keeps its first place.
RECURSIVE DictKeys(_)
DictKeys(lhs) ==
  IF lhs = <<>> THEN <<>>
  ELSE LET front == DictKeys(SubSeq(lhs, 1, Len(lhs) - 1))
           p == lhs[Len(lhs)].Position
       IN IF Contains(front, p) THEN front ELSE Append(front, p)

\* lighthouses.get(my_pos): the last lighthouse listed at my_pos, or None.
RECURSIVE DictGet(_, _)
DictGet(lhs, p) ==
  IF lhs = <<>> THEN None
  ELSE IF lhs[Len(lhs)].Position = p THEN lhs[Len(lhs)]
  ELSE DictGet(SubSeq(lhs, 1, Len(lhs) - 1), p)

\* A deque that, once full, replaces its newest entry instead of its oldest.
DequeAppendNewest(v, p) ==
  IF Len(v) < VisitedMaxLen THEN Append(v, p)
  ELSE Append(SubSeq(v, 1, Len(v) - 1), p)

\* An append that skips a position the deque holds already.
DequeAppendOnce(v, p) ==
  IF Contains(v, p) THEN v
  ELSE IF Len(v) < VisitedMaxLen THEN Append(v, p) ELSE Append(Tail(v), p)

\* deque(maxlen=3).append
DequeAppend(v, p) ==
  IF Len(v) < VisitedMaxLen THEN Append(v, p) ELSE Append(Tail(v), p)

\* The candidate list without the visited filter.
UnvisitedUnfiltered(lhs, v) == DictKeys(lhs)

\* [pos for pos in lighthouses.keys() if pos not in self.visited]
Unvisited(lhs, v) == SelectSeq(DictKeys(lhs), LAMBDA p : ~Contains(v, p))

\* min(unvisited, key=...): the first element of least key.
RECURSIVE MinBy(_, _)
MinBy(s, my_pos) ==
  IF Len(s) = 1 THEN s[1]
  ELSE LET best == MinBy(SubSeq(s, 1, Len(s) - 1), my_pos)
           last == s[Len(s)]
       IN IF manhattan_distance(my_pos, last) < manhattan_distance(my_pos, best)
          THEN last ELSE best

\* A test that replaces a missing target only.
NeedsTargetIfNone(t, v) == t = None

\* `not self.target or self.target in self.visited`: a position tuple is
\* truthy, None is not.
NeedsTarget(t, v) == t = None \/ Contains(v, t)

\* A minimum that keeps the last element of least key.
RECURSIVE MinByLast(_, _)
MinByLast(s, my_pos) ==
  IF Len(s) = 1 THEN s[1]
  ELSE LET best == MinByLast(SubSeq(s, 1, Len(s) - 1), my_pos)
           last == s[Len(s)]
       IN IF manhattan_distance(my_pos, last) <= manhattan_distance(my_pos, best)
          THEN last ELSE best

NearestOfLast(unvisited, my_pos) ==
  IF unvisited # <<>> THEN MinByLast(unvisited, my_pos) ELSE None

\* Lines 78-81: the nearest candidate, or None when there is none.
NearestOf(unvisited, my_pos) ==
  IF unvisited # <<>> THEN MinBy(unvisited, my_pos) ELSE None

\* A choice whose tie-break is not a function of the fields and the
\* observation: it turns with what the game has produced besides.
ChooseTargetUnstable(t, v, lhs, my_pos) ==
  IF NeedsTarget(t, v)
  THEN IF Len(feed) = 0 THEN NearestOf(Unvisited(lhs, v), my_pos)
       ELSE NearestOfLast(Unvisited(lhs, v), my_pos)
  ELSE t

\* Lines 74-81.
ChooseTarget(t, v, lhs, my_pos) ==
  IF NeedsTarget(t, v) THEN NearestOf(Unvisited(lhs, v), my_pos) ELSE t

\* A step that jumps the whole difference.
StepWhole(t, c) == t - c

\* 0 if tx == cx else (1 if tx > cx else -1)
StepToward(t, c) == IF t = c THEN 0 ELSE IF t > c THEN 1 ELSE -1

\* An ATTACK built without its Energy.
AttackActionNoEnergy(turn) ==
  [Action |-> "ATTACK", Destination |-> turn.Position, Energy |-> 0]

\* An action without Energy carries the message's default, 0.
AttackAction(turn) ==
  [Action |-> "ATTACK", Destination |-> turn.Position, Energy |-> turn.Energy]

\* A move along one axis at a time: y first, then x.
MoveActionByAxis(my_pos, t) ==
  [Action |-> "MOVE",
   Destination |->
     IF t[2] # my_pos[2]
     THEN <<my_pos[1], my_pos[2] + StepToward(t[2], my_pos[2])>>
     ELSE <<my_pos[1] + StepToward(t[1], my_pos[1]), my_pos[2]>>,
   Energy |-> 0]

\* A move that turns into PASS when the target is the bot's position.
MoveActionOrPass(my_pos, t) ==
  IF t = my_pos
  THEN [Action |-> "PASS", Destination |-> my_pos, Energy |-> 0]
  ELSE [Action |-> "MOVE",
        Destination |-> <<my_pos[1] + StepToward(t[1], my_pos[1]),
                          my_pos[2] + StepToward(t[2], my_pos[2])>>,
        Energy |-> 0]

\* Lines 85-91.
MoveAction(my_pos, t) ==
  [Action |-> "MOVE",
   Destination |-> <<my_pos[1] + StepToward(t[1], my_pos[1]),
                     my_pos[2] + StepToward(t[2], my_pos[2])>>,
   Energy |-> 0]

PassAction(my_pos) ==
  [Action |-> "PASS", Destination |-> my_pos, Energy |-> 0]

\* A lookup that takes the first lighthouse listed, wherever it is.
LhHereFirst(turn) ==
  IF turn.Lighthouses = <<>> THEN None ELSE turn.Lighthouses[1]

\* lh_here = lighthouses.get(my_pos)
LhHere(turn) == DictGet(turn.Lighthouses, turn.Position)

\* `if lh_here` and `lh_here.Owner != self.player_num`
Attacks(lh_here, me) == lh_here # None /\ lh_here.Owner # me

\* The contested lighthouse without the increment of line 67.
AttackBranchNoCount(bg, turn) ==
  [visited |-> DequeAppend(bg.visited, turn.Position),
   target |-> bg.target,
   turn_states |-> bg.turn_states + 1,
   countT |-> bg.countT,
   action |-> AttackAction(turn)]

\* Lines 59-68: the contested lighthouse.
AttackBranch(bg, turn) ==
  [visited |-> DequeAppend(bg.visited, turn.Position),
   target |-> bg.target,
   turn_states |-> bg.turn_states + 1,
   countT |-> bg.countT + 1,
   action |-> AttackAction(turn)]

\* Targeting that keeps the old target when it finds no candidate, without
\* line 81.
TargetBranchKeeps(bg, v, turn) ==
  LET c == ChooseTarget(bg.target, v, turn.Lighthouses, turn.Position)
      t == IF c = None THEN bg.target ELSE c
  IN [visited |-> v,
      target |-> t,
      turn_states |-> bg.turn_states + 1,
      countT |-> bg.countT + 1,
      action |-> IF t # None THEN MoveAction(turn.Position, t)
                 ELSE PassAction(turn.Position)]

\* Lines 74-100: targeting and movement, from the visited list v.
TargetBranch(bg, v, turn) ==
  LET t == ChooseTarget(bg.target, v, turn.Lighthouses, turn.Position)
  IN [visited |-> v,
      target |-> t,
      turn_states |-> bg.turn_states + 1,
      countT |-> bg.countT + 1,
      action |-> IF t # None THEN MoveAction(turn.Position, t)
                 ELSE PassAction(turn.Position)]

\* A call that goes to targeting from the bot's own lighthouse without
\* line 71.
new_turn_action_unmarked(bg, turn) ==
  LET lh_here == LhHere(turn)
  IN IF Attacks(lh_here, bg.player_num) THEN AttackBranch(bg, turn)
     ELSE TargetBranch(bg, bg.visited, turn)

\* The whole call on the fields bg: the fields it leaves and its action.
new_turn_action(bg, turn) ==
  LET lh_here == LhHere(turn)
  IN IF Attacks(lh_here, bg.player_num) THEN AttackBranch(bg, turn)
     ELSE IF lh_here # None
          THEN TargetBranch(bg, DequeAppend(bg.visited, turn.Position), turn)
          ELSE TargetBranch(bg, bg.visited, turn)

\* A worker between calls, and the locals of new_turn_action.
Idle ==
  [pc |-> "idle", turn |-> None, lh_here |-> None, unvisited |-> <<>>,
   t |-> None, action |-> None, n |-> 0]

\* A run of TraceSpec or ReplaySpec before its BotGame exists.
NotStarted == [bg |-> None, first |-> None, trail |-> <<>>]

(***************************************************************************)
(* The session: main, the join loop, the serving endpoint.                 *)
(***************************************************************************)
\* main has built the BotComs and enters wait_to_join_game.  The BotGame is
\* built by StartListening; until then its fields show what its constructor
\* will set.
Init ==
  /\ pc = "joining"
  /\ reachable \in BOOLEAN
  /\ failed = 0
  /\ joined = 0
  /\ returned = NoId
  /\ bot_id = NoId
  /\ player_num = NoId
  /\ initial_state = None
  /\ visited = <<>>
  /\ target = None
  /\ countT = 1
  /\ turn_states = 0
  /\ method = "none"
  /\ request = None
  /\ response = None
  /\ entry = None
  /\ wk = [w \in Workers |-> Idle]
  /\ started = 0
  /\ feed = <<>>
  /\ run = [r \in Runs |-> NotStarted]

\* Environment: the game server comes up.
ServerUp ==
  /\ ~reachable
  /\ reachable' = TRUE
  /\ UNCHANGED <<pc, failed, joined, returned, bot_id, botVars, rpcVars, concVars, replayVars>>

\* A loop that gives up at its first RpcError.
JoinFailGivesUp ==
  /\ pc = "joining"
  /\ ~reachable
  /\ failed < MaxFail
  /\ failed' = failed + 1
  /\ pc' = "joined"
  /\ UNCHANGED <<reachable, joined, returned, bot_id, botVars, rpcVars, concVars, replayVars>>

\* One iteration of the loop whose client.Join raises RpcError.
JoinFail ==
  /\ pc = "joining"
  /\ ~reachable
  /\ failed < MaxFail
  /\ failed' = failed + 1
  /\ UNCHANGED <<pc, reachable, joined, returned, bot_id, botVars, rpcVars, concVars, replayVars>>

\* The iteration whose client.Join answers: store the id and break.
JoinOk ==
  /\ pc = "joining"
  /\ reachable
  /\ \E id \in PlayerIds :
       /\ returned' = id
       /\ bot_id' = id
  /\ joined' = joined + 1
  /\ pc' = "joined"
  /\ UNCHANGED <<reachable, failed, botVars, rpcVars, concVars, replayVars>>

\* A main that starts listening without waiting for the join.
StartListeningEarly ==
  /\ pc \in {"joining", "joined"}
  /\ pc' = "listening"
  /\ player_num' = bot_id
  /\ initial_state' = None
  /\ visited' = <<>>
  /\ target' = None
  /\ countT' = 1
  /\ turn_states' = 0
  /\ failed' = 0
  /\ joined' = 0
  /\ UNCHANGED <<reachable, returned, bot_id, rpcVars, concVars, replayVars>>

\* start_listening: ClientServer(bot_id) builds the BotGame, the server starts.
\* The counts of the join loop end with it.
StartListening ==
  /\ pc = "joined"
  /\ pc' = "listening"
  /\ player_num' = bot_id
  /\ initial_state' = None
  /\ visited' = <<>>
  /\ target' = None
  /\ countT' = 1
  /\ turn_states' = 0
  /\ failed' = 0
  /\ joined' = 0
  /\ UNCHANGED <<reachable, returned, bot_id, rpcVars, concVars, replayVars>>

\* ClientServer.Join
InboundJoin ==
  /\ pc = "listening"
  /\ method = "none"
  /\ method' = "Join"
  /\ request' = None
  /\ response' = None
  /\ entry' = None
  /\ UNCHANGED <<pc, joinVars, botVars, concVars, replayVars>>

\* An InitialState that also starts the BotGame's targeting afresh.
InitialStateResets ==
  /\ pc = "listening"
  /\ method = "none"
  /\ \E snap \in Snapshots :
       /\ initial_state' = snap
       /\ request' = snap
  /\ method' = "InitialState"
  /\ response' = [Ready |-> TRUE]
  /\ entry' = None
  /\ visited' = <<>>
  /\ target' = None
  /\ UNCHANGED <<pc, joinVars, player_num, countT, turn_states, concVars, replayVars>>

\* ClientServer.InitialState
InitialState ==
  /\ pc = "listening"
  /\ method = "none"
  /\ \E snap \in Snapshots :
       /\ initial_state' = snap
       /\ request' = snap
  /\ method' = "InitialState"
  /\ response' = [Ready |-> TRUE]
  /\ entry' = None
  /\ UNCHANGED <<pc, joinVars, player_num, visited, target, countT, turn_states, concVars, replayVars>>

\* The fields of the BotGame.
Bg ==
  [player_num |-> player_num, visited |-> visited, target |-> target,
   turn_states |-> turn_states, countT |-> countT]

\* ClientServer.Turn, with new_turn_action run from entry to return.
Turn ==
  /\ pc = "listening"
  /\ method = "none"
  /\ countT <= MaxTurns
  /\ \E turn \in NewTurn :
       \E r \in {new_turn_action(Bg, turn)} :
          /\ visited' = r.visited
          /\ target' = r.target
          /\ turn_states' = r.turn_states
          /\ countT' = r.countT
          /\ response' = r.action
          /\ request' = turn
  /\ method' = "Turn"
  /\ entry' = [visited |-> visited, target |-> target]
  /\ UNCHANGED <<pc, joinVars, player_num, initial_state, concVars, replayVars>>

\* The endpoint sends the handler's return value; the call is over.
Respond ==
  /\ method # "none"
  /\ method' = "none"
  /\ request' = None
  /\ response' = None
  /\ entry' = None
  /\ UNCHANGED <<pc, joinVars, botVars, concVars, replayVars>>

Next ==
  \/ ServerUp
  \/ JoinFail
  \/ JoinOk
  \/ StartListening
  \/ InboundJoin
  \/ InitialState
  \/ Turn
  \/ Respond

Spec == Init /\ [][Next]_vars

(***************************************************************************)
(* The worker pool.  grpc.server runs each inbound call on a thread of     *)
(* ThreadPoolExecutor(max_workers=10) and ClientServer.Turn calls          *)
(* new_turn_action on the one BotGame with no lock, so the threads are     *)
(* switched between its statements.  A step below is one statement (or a   *)
(* run of statements on locals only); `self.countT += 1` is a read and a   *)
(* write.                                                                  *)
(***************************************************************************)
\* The Turn calls ConcSpec delivers: the bot on or beside the lighthouse
\* of cell (0, 0).
ConcTurns ==
  {turn \in NewTurn :
     /\ turn.Energy = 7
     /\ turn.Position \in {<<0, 0>>, <<1, 0>>}
     /\ Len(turn.Lighthouses) <= 1
     /\ \A i \in 1..Len(turn.Lighthouses) :
          turn.Lighthouses[i].Position = <<0, 0>>}

sessVars == <<pc, joinVars, rpcVars, player_num, initial_state, replayVars>>

At(w, place) == wk[w].pc = place

\* Line 185, then lines 36-41: a free worker takes a Turn call.
WEnter(w) ==
  /\ pc = "listening"
  /\ At(w, "idle")
  /\ started < MaxCalls
  /\ \E turn \in ConcTurns :
       wk' = [wk EXCEPT ![w] = [Idle EXCEPT !.pc = "L43", !.turn = turn,
                                            !.lh_here = LhHere(turn)]]
  /\ started' = started + 1
  /\ UNCHANGED <<sessVars, visited, target, countT, turn_states>>

\* Lines 43 and 59.
WBranch(w) ==
  /\ At(w, "L43")
  /\ wk' = [wk EXCEPT ![w].pc =
              IF Attacks(wk[w].lh_here, player_num) THEN "L60"
              ELSE IF wk[w].lh_here # None THEN "L71" ELSE "L74"]
  /\ UNCHANGED <<sessVars, visited, target, countT, turn_states, started>>

\* Lines 60-65.
WAttack(w) ==
  /\ At(w, "L60")
  /\ visited' = DequeAppend(visited, wk[w].turn.Position)
  /\ wk' = [wk EXCEPT ![w].pc = "L98",
                      ![w].action = AttackAction(wk[w].turn)]
  /\ UNCHANGED <<sessVars, target, countT, turn_states, started>>

\* Line 71.
WOwn(w) ==
  /\ At(w, "L71")
  /\ visited' = DequeAppend(visited, wk[w].turn.Position)
  /\ wk' = [wk EXCEPT ![w].pc = "L74"]
  /\ UNCHANGED <<sessVars, target, countT, turn_states, started>>

\* Line 74.
WNeeds(w) ==
  /\ At(w, "L74")
  /\ wk' = [wk EXCEPT ![w].pc =
              IF NeedsTarget(target, visited) THEN "L75" ELSE "L84"]
  /\ UNCHANGED <<sessVars, visited, target, countT, turn_states, started>>

\* Lines 75-77.
WUnvisited(w) ==
  /\ At(w, "L75")
  /\ wk' = [wk EXCEPT ![w].pc = "L78",
                      ![w].unvisited = Unvisited(wk[w].turn.Lighthouses, visited)]
  /\ UNCHANGED <<sessVars, visited, target, countT, turn_states, started>>

\* Lines 78-81.
WSetTarget(w) ==
  /\ At(w, "L78")
  /\ target' = NearestOf(wk[w].unvisited, wk[w].turn.Position)
  /\ wk' = [wk EXCEPT ![w].pc = "L84"]
  /\ UNCHANGED <<sessVars, visited, countT, turn_states, started>>

\* Line 84.
WTest(w) ==
  /\ At(w, "L84")
  /\ wk' = [wk EXCEPT ![w].pc = IF target # None THEN "L85" ELSE "L93"]
  /\ UNCHANGED <<sessVars, visited, target, countT, turn_states, started>>

\* Line 85: unpacking None raises TypeError.
WUnpack(w) ==
  /\ At(w, "L85")
  /\ wk' = [wk EXCEPT ![w].pc = IF target = None THEN "raised" ELSE "L86",
                      ![w].t = target]
  /\ UNCHANGED <<sessVars, visited, target, countT, turn_states, started>>

\* Lines 86-91.
WMove(w) ==
  /\ At(w, "L86")
  /\ wk' = [wk EXCEPT ![w].pc = "L98",
                      ![w].action = MoveAction(wk[w].turn.Position, wk[w].t)]
  /\ UNCHANGED <<sessVars, visited, target, countT, turn_states, started>>

\* Lines 93-96.
WPass(w) ==
  /\ At(w, "L93")
  /\ wk' = [wk EXCEPT ![w].pc = "L98",
                      ![w].action = PassAction(wk[w].turn.Position)]
  /\ UNCHANGED <<sessVars, visited, target, countT, turn_states, started>>

\* Lines 66 and 98.
WAppend(w) ==
  /\ At(w, "L98")
  /\ turn_states' = turn_states + 1
  /\ wk' = [wk EXCEPT ![w].pc = "L99"]
  /\ UNCHANGED <<sessVars, visited, target, countT, started>>

\* Lines 67 and 99: the read of self.countT.
WLoad(w) ==
  /\ At(w, "L99")
  /\ wk' = [wk EXCEPT ![w].pc = "L99w", ![w].n = countT]
  /\ UNCHANGED <<sessVars, visited, target, countT, turn_states, started>>

\* Lines 67 and 99: the write of self.countT.
WStore(w) ==
  /\ At(w, "L99w")
  /\ countT' = wk[w].n + 1
  /\ wk' = [wk EXCEPT ![w].pc = "L100"]
  /\ UNCHANGED <<sessVars, visited, target, turn_states, started>>

\* Lines 68 and 100, then line 186: the action is returned and sent.
WReturn(w) ==
  /\ At(w, "L100")
  /\ wk' = [wk EXCEPT ![w] = Idle]
  /\ UNCHANGED <<sessVars, visited, target, countT, turn_states, started>>

\* The call that raised ends with an error status.
WRaise(w) ==
  /\ At(w, "raised")
  /\ wk' = [wk EXCEPT ![w] = Idle]
  /\ UNCHANGED <<sessVars, visited, target, countT, turn_states, started>>

ConcNext ==
  \/ ServerUp
  \/ JoinFail
  \/ JoinOk
  \/ StartListening
  \/ \E w \in Workers :
       \/ WEnter(w)
       \/ WBranch(w)
       \/ WAttack(w)
       \/ WOwn(w)
       \/ WNeeds(w)
       \/ WUnvisited(w)
       \/ WSetTarget(w)
       \/ WTest(w)
       \/ WUnpack(w)
       \/ WMove(w)
       \/ WPass(w)
       \/ WAppend(w)
       \/ WLoad(w)
       \/ WStore(w)
       \/ WReturn(w)
       \/ WRaise(w)

ConcSpec == Init /\ [][ConcNext]_vars

\* The join loop iterates as long as it has not joined (sleep, then the next
\* attempt, each bounded by its timeout).
FairSpec == Spec /\ WF_vars(JoinOk)

(***************************************************************************)
(* The decision procedure on its own.  TraceSpec calls new_turn_action on  *)
(* one BotGame, observation after observation, and keeps what every call   *)
(* returned and left.  ReplaySpec does so for two BotGames built in equal  *)
(* state: the run ahead takes each new observation from the game, the run  *)
(* behind is given the same observations in the same order.                *)
(***************************************************************************)
\* The observations of these runs: the bot on the row y = 0 or at (2, 1),
\* the lighthouses of cells (0, 0) and (2, 0) listed or not, (0, 0) first.
TraceTurns ==
  {turn \in NewTurn :
     /\ turn.Energy = 7
     /\ turn.Position \in {<<0, 0>>, <<1, 0>>, <<2, 0>>, <<2, 1>>}
     /\ \A i \in 1..Len(turn.Lighthouses) :
          turn.Lighthouses[i].Position \in {<<0, 0>>, <<2, 0>>}
     /\ Len(turn.Lighthouses) = 2
          => turn.Lighthouses[1].Position = <<0, 0>>}

\* The BotGame of player "p1" as its constructor leaves it, and as earlier
\* calls can have left it: after three ATTACK calls, and after a first call
\* that took (0, 0) as target and an ATTACK there.
StartStates ==
  {[player_num |-> "p1", visited |-> <<>>, target |-> None,
    turn_states |-> 0, countT |-> 1],
   [player_num |-> "p1", visited |-> <<<<0, 0>>, <<2, 0>>, <<0, 0>>>>,
    target |-> None, turn_states |-> 3, countT |-> 4],
   [player_num |-> "p1", visited |-> <<<<0, 0>>>>, target |-> <<0, 0>>,
    turn_states |-> 2, countT |-> 3]}

Started(r) == run[r].bg # None

\* Calls of new_turn_action run r has made.
Done(r) == Len(run[r].trail)

\* The runs are built, in one and the same state.
Begin ==
  /\ \A r \in Runs : ~Started(r)
  /\ \E s \in StartStates : run' = [r \in Runs |-> [bg |-> s, first |-> s, trail |-> <<>>]]
  /\ UNCHANGED <<feed, pc, joinVars, botVars, rpcVars, concVars>>

\* One call of new_turn_action by run r on the observation turn.
Call(r, turn) ==
  \E res \in {new_turn_action(run[r].bg, turn)} :
     run' = [run EXCEPT
               ![r].bg = [player_num |-> run[r].bg.player_num,
                          visited |-> res.visited,
                          target |-> res.target,
                          turn_states |-> res.turn_states,
                          countT |-> res.countT],
               ![r].trail = Append(run[r].trail, res)]

\* Run r has seen every observation so far and is called with the next one
\* the game produces, within the first max.
Lead(r, max) ==
  /\ Started(r)
  /\ Done(r) = Len(feed)
  /\ Len(feed) < max
  /\ \E turn \in TraceTurns :
       /\ feed' = Append(feed, turn)
       /\ Call(r, turn)
  /\ UNCHANGED <<pc, joinVars, botVars, rpcVars, concVars>>

\* Run r is behind and is called with the observation it has not seen yet.
Follow(r) ==
  /\ Started(r)
  /\ Done(r) < Len(feed)
  /\ Call(r, feed[Done(r) + 1])
  /\ UNCHANGED <<feed, pc, joinVars, botVars, rpcVars, concVars>>

\* These runs need no session: main is as in Init, the game server up.
TraceInit == Init /\ reachable

TraceNext ==
  \/ Begin
  \/ Lead("a", MaxTrace)

TraceSpec == TraceInit /\ [][TraceNext]_vars

ReplayNext ==
  \/ Begin
  \/ \E r \in Runs :
       \/ Lead(r, MaxReplay)
       \/ Follow(r)

ReplaySpec == TraceInit /\ [][ReplayNext]_vars

(***************************************************************************)
(* Properties.  While a Turn call is in flight (method = "Turn"), request  *)
(* is its observation, response the action returned, entry the visited     *)
(* list and target the call found, and visited, target, countT the fields  *)
(* it left.                                                                *)
(***************************************************************************)
InTurn == method = "Turn"

Lhs == request.Lighthouses
Here == request.Position

\* A lighthouse is listed at the bot's position.
LighthouseHere == \E i \in 1..Len(Lhs) : Lhs[i].Position = Here

\* A lighthouse is listed at the bot's position and is not the bot's.
ContestedHere ==
  \E i \in 1..Len(Lhs) : Lhs[i].Position = Here /\ Lhs[i].Owner # player_num

VisitedSet == {visited[i] : i \in 1..Len(visited)}

\* Indices of the listed lighthouses outside visited.
Candidates == {i \in 1..Len(Lhs) : Lhs[i].Position \notin VisitedSet}

Dist(i) ==
  LET p == Lhs[i].Position
  IN (IF p[1] >= Here[1] THEN p[1] - Here[1] ELSE Here[1] - p[1])
     + (IF p[2] >= Here[2] THEN p[2] - Here[2] ELSE Here[2] - p[2])

Sgn(n) == IF n > 0 THEN 1 ELSE IF n < 0 THEN -1 ELSE 0

\* The call reached targeting with a target to replace: none, or one in
\* visited as lines 59-71 left it.
Reselects == entry.target = None \/ entry.target \in VisitedSet

\* C1: on a lighthouse that is not the bot's, the action is ATTACK at the
\* bot's position with the turn's energy, whatever the target and visited.
C1_AttackContested ==
  (InTurn /\ ContestedHere)
    => response = [Action |-> "ATTACK", Destination |-> Here,
                   Energy |-> request.Energy]

C1_Witness ==
  /\ InTurn /\ ContestedHere
  /\ request.Energy = 0
  /\ entry.target # None /\ entry.target # Here
  /\ Contains(entry.visited, Here)
  /\ response.Action = "ATTACK"

\* C2: with no lighthouse listed at the bot's position the action is MOVE
\* or PASS, never ATTACK.
C2_NoAttackOffLighthouse ==
  (InTurn /\ ~LighthouseHere) => response.Action \in {"MOVE", "PASS"}

C2_Witness ==
  /\ InTurn /\ ~LighthouseHere
  /\ Len(Lhs) = 2
  /\ response.Action = "MOVE"

\* C5: visited never holds more than 3 entries; a turn on a lighthouse
\* appends the position, and when 3 were held the oldest is dropped and the
\* other two kept, so a 4th distinct position pushes the 1st out.
C5_VisitedFifo ==
  /\ Len(visited) <= 3
  /\ InTurn =>
       LET old == entry.visited
       IN IF LighthouseHere
          THEN /\ Len(old) < 3 => visited = old \o <<Here>>
               /\ Len(old) = 3 => visited = <<old[2], old[3], Here>>
               /\ (Len(old) = 3 /\ old[1] \notin {old[2], old[3], Here})
                    => old[1] \notin VisitedSet
          ELSE visited = old

C5_Witness ==
  /\ InTurn /\ LighthouseHere
  /\ Len(entry.visited) = 3
  /\ Cardinality({entry.visited[1], entry.visited[2], entry.visited[3], Here}) = 4
  /\ entry.visited[1] \notin VisitedSet

\* C6, as stated: whenever no listed lighthouse lies outside visited, the
\* action is PASS at the bot's position.  Stated for the turns where that
\* is so of visited both as the call found it and as it left it.
C6_PassWhenAllVisited ==
  (/\ InTurn
   /\ \A i \in 1..Len(Lhs) : Contains(entry.visited, Lhs[i].Position)
   /\ Candidates = {})
    => (response.Action = "PASS" /\ response.Destination = Here)

\* C6, amended: when the bot is not on a lighthouse of someone else, its
\* target is none or in visited, and no listed lighthouse lies outside
\* visited (visited as this turn left it), the action is PASS at the bot's
\* position.
C6_PassWhenNothingLeft ==
  (InTurn /\ ~ContestedHere /\ Reselects /\ Candidates = {})
    => (response.Action = "PASS" /\ response.Destination = Here)

C6_Witness ==
  /\ InTurn /\ ~ContestedHere /\ Reselects /\ Candidates = {}
  /\ Len(Lhs) = 2
  /\ entry.target # None
  /\ response.Action = "PASS"

\* C7: when targeting replaces the target and some listed lighthouse lies
\* outside visited, the new target is such a lighthouse at least Manhattan
\* distance from the bot, the first listed among those equally near.
C7_NearestFirstListed ==
  (InTurn /\ ~ContestedHere /\ Reselects /\ Candidates # {})
    => \E i \in Candidates :
         /\ target = Lhs[i].Position
         /\ \A j \in Candidates : Dist(j) >= Dist(i)
         /\ \A j \in Candidates : j < i => Dist(j) > Dist(i)

C7_Witness ==
  /\ InTurn /\ ~ContestedHere /\ Reselects
  /\ entry.target # None
  /\ Candidates = {1, 2}
  /\ Dist(1) = Dist(2)
  /\ target = Lhs[1].Position

\* C8: a MOVE goes at most one cell on each axis, by the sign of the
\* distance to the target the turn left.
C8_UnitStep ==
  (InTurn /\ response.Action = "MOVE")
    => /\ target # None
       /\ \A a \in {1, 2} :
            LET step == response.Destination[a] - Here[a]
            IN /\ step \in {-1, 0, 1}
               /\ step = Sgn(target[a] - Here[a])

C8_Witness ==
  /\ InTurn /\ response.Action = "MOVE"
  /\ target[1] - Here[1] = -2
  /\ target[2] - Here[2] = 1
  /\ response.Destination = <<Here[1] - 1, Here[2] + 1>>

\* C9: countT starts at 1 and the history empty, every Turn call adds one
\* record and one to countT on each of its branches, neither ever goes
\* down, and len(history) = countT - 1 throughout.
C9_HistoryAndCount ==
  /\ [](countT = turn_states + 1 /\ turn_states >= 0)
  /\ [][/\ countT' >= countT
        /\ turn_states' >= turn_states
        /\ (method = "none" /\ method' = "Turn")
             => (countT' = countT + 1 /\ turn_states' = turn_states + 1)
        /\ method' # "Turn" => (countT' = countT /\ turn_states' = turn_states)
       ]_vars

C9_Witness ==
  /\ InTurn
  /\ response.Action = "ATTACK"
  /\ turn_states = 3
  /\ countT = 4

\* C3: at most one worker at a time is inside new_turn_action.
C3_MutualExclusion ==
  Cardinality({w \in Workers : wk[w].pc # "idle"}) <= 1

\* C4: a failed attempt leaves the loop running and nothing stored; the loop
\* ends only by a successful Join, the one such call, which stores the id
\* the server returned and leaves the count of failures as it was; and once
\* the server is reachable the loop does end.
C4_JoinRetry ==
  /\ [](pc = "joining" => (bot_id = NoId /\ joined = 0))
  /\ [](pc = "joined" =>
          (joined = 1 /\ bot_id \in PlayerIds /\ bot_id = returned))
  /\ [][failed' > failed =>
          (/\ failed' = failed + 1
           /\ ~reachable
           /\ pc = "joining" /\ pc' = "joining"
           /\ bot_id' = NoId /\ joined' = 0)]_vars
  /\ [][(pc = "joining" /\ pc' # "joining") =>
          (/\ reachable
           /\ pc' = "joined"
           /\ joined' = joined + 1
           /\ failed' = failed)]_vars
  /\ (pc = "joining" /\ reachable) ~> (pc = "joined")

C4_Witness ==
  /\ pc = "joined"
  /\ failed = 2
  /\ joined = 1
  /\ bot_id = "p2"

\* C10: no inbound call is served before the endpoint listens, it listens
\* only with the id of the successful join stored, the BotGame's player_num
\* is that id, and no call changes either.
C10_ServeAfterJoin ==
  /\ [](method # "none" => pc = "listening")
  /\ [](pc = "listening" =>
          /\ bot_id # NoId
          /\ bot_id = returned
          /\ player_num = bot_id)
  /\ [][pc = "listening" =>
          (pc' = "listening" /\ player_num' = player_num /\ bot_id' = bot_id)
       ]_vars

C10_Witness ==
  /\ pc = "listening"
  /\ InTurn
  /\ initial_state # None
  /\ player_num = "p2"
  /\ turn_states = 2

\* C12: a Turn call is handled only once an InitialState call has been
\* received: whenever a Turn call is in flight, the snapshot is stored.
C12_TurnAfterInitialState ==
  InTurn => initial_state # None

\* C13: an inbound Join call returns None and changes no field of the
\* BotGame or of the session; an InitialState call returns Ready = true,
\* stores its request as the snapshot and changes nothing else; both hold
\* wherever the call falls among the Turn calls.
C13_RespondersFrame ==
  [][/\ (method = "none" /\ method' = "Join")
          => /\ response' = None
             /\ UNCHANGED <<pc, joinVars, botVars>>
     /\ (method = "none" /\ method' = "InitialState")
          => /\ response' = [Ready |-> TRUE]
             /\ initial_state' = request'
             /\ UNCHANGED <<pc, joinVars, player_num, visited, target,
                            countT, turn_states>>
    ]_vars

\* An InitialState call in flight after two Turn calls that left a target
\* and a visited position.
C13_Witness ==
  /\ method = "InitialState"
  /\ response = [Ready |-> TRUE]
  /\ initial_state = request
  /\ turn_states = 2
  /\ visited # <<>>
  /\ target # None

\* A lighthouse is listed at the bot's position and is the bot's.
OwnedHere ==
  \E i \in 1..Len(Lhs) : Lhs[i].Position = Here /\ Lhs[i].Owner = player_num

\* C14: on a lighthouse the bot owns, the position is appended to visited
\* and targeting works from that list: the action is MOVE or PASS and the
\* target the turn leaves is not the bot's position, even if it was on entry.
C14_OwnLighthouseMarked ==
  (InTurn /\ OwnedHere)
    => /\ visited # <<>> /\ visited[Len(visited)] = Here
       /\ Len(entry.visited) < 3 => visited = entry.visited \o <<Here>>
       /\ Len(entry.visited) = 3
            => visited = <<entry.visited[2], entry.visited[3], Here>>
       /\ response.Action \in {"MOVE", "PASS"}
       /\ target # Here

\* The bot arrives on its own lighthouse, which was its target and not yet
\* in visited, and moves on to another.
C14_Witness ==
  /\ InTurn /\ OwnedHere
  /\ entry.target = Here
  /\ ~Contains(entry.visited, Here)
  /\ response.Action = "MOVE"
  /\ target # None

\* C15: in a turn that does not attack, with the target none or in visited
\* and every listed lighthouse in visited (visited as this turn's update
\* left it), the target is left none and the action is PASS at the bot's
\* position.
C15_TargetResetAndPass ==
  (/\ InTurn /\ ~ContestedHere
   /\ entry.target = None \/ Contains(visited, entry.target)
   /\ \A i \in 1..Len(Lhs) : Contains(visited, Lhs[i].Position))
    => /\ target = None
       /\ response = [Action |-> "PASS", Destination |-> Here, Energy |-> 0]

\* The bot stands on its target, its own lighthouse and the only one listed.
C15_Witness ==
  /\ InTurn /\ OwnedHere
  /\ Len(Lhs) = 1
  /\ entry.target = Here
  /\ target = None
  /\ response.Action = "PASS"
  /\ response.Destination = Here

\* C17: whenever every Turn call handed to the pool has finished, countT
\* is 1 plus their number and the history holds one record for each.
C17_NoLostTurn ==
  (\A w \in Workers : wk[w].pc = "idle")
    => (countT = 1 + started /\ turn_states = started)

(***************************************************************************)
(* Properties of the runs of TraceSpec and ReplaySpec.  For run r,         *)
(* feed[k] is the observation of its k-th call and run[r].trail[k] the     *)
(* action that call returned with the fields it left.                      *)
(***************************************************************************)
\* The fields run "a" had before its k-th call and after it.
Before(k) == IF k = 1 THEN run["a"].first ELSE run["a"].trail[k - 1]
After(k) == run["a"].trail[k]

\* The observation turn lists a lighthouse at position p.
ListedAt(turn, p) ==
  \E i \in 1..Len(turn.Lighthouses) : turn.Lighthouses[i].Position = p

\* Before the k-th call the target is the observed position and is not in
\* visited, and no lighthouse is listed at that position.
OnTarget(k) ==
  /\ Before(k).target = feed[k].Position
  /\ ~Contains(Before(k).visited, feed[k].Position)
  /\ ~ListedAt(feed[k], feed[k].Position)

\* From call k through call j the bot is observed at one position, with no
\* lighthouse listed at it.
StaysPut(k, j) ==
  \A i \in k..j :
     /\ feed[i].Position = feed[k].Position
     /\ ~ListedAt(feed[i], feed[i].Position)

C16_ZeroStepMove ==
  \A k \in 1..Done("a") :
     OnTarget(k) =>
       /\ After(k).action = [Action |-> "MOVE",
                             Destination |-> feed[k].Position, Energy |-> 0]
       /\ After(k).target = feed[k].Position
       /\ \A j \in (k + 1)..Done("a") :
            StaysPut(k, j) =>
              /\ After(j).action = After(k).action
              /\ After(j).target = After(k).target

\* A call takes a target, and two calls at the target's cell follow, with
\* another lighthouse in view that a reselection would take.
C16_Witness ==
  /\ Done("a") = 3
  /\ Before(1).target = None
  /\ OnTarget(2)
  /\ StaysPut(2, 3)
  /\ Len(feed[3].Lighthouses) = 1
  /\ After(3).action.Action = "MOVE"
  /\ After(3).action.Destination = feed[3].Position
  /\ After(3).target = feed[2].Position

\* The fields before call k hold a target that is in visited.
Stale(k) ==
  /\ Before(k).target # None
  /\ Contains(Before(k).visited, Before(k).target)

\* Call j is the first from call k on to reach targeting: the calls before
\* it returned ATTACK, it did not.
NextTargeting(k, j) ==
  /\ \A i \in k..(j - 1) : After(i).action.Action = "ATTACK"
  /\ After(j).action.Action # "ATTACK"

\* Every call that returns MOVE or PASS leaves the target none or outside
\* visited, so a target in visited was left there by an ATTACK.
TargetFresh ==
  \A k \in 1..Done("a") :
     After(k).action.Action \in {"MOVE", "PASS"}
       => (After(k).target = None
           \/ ~Contains(After(k).visited, After(k).target))

\* C18, as stated: a target left in visited is replaced by the next call
\* that reaches targeting.
C18_StaleTargetReplaced ==
  /\ TargetFresh
  /\ \A k \in 1..Done("a") : \A j \in k..Done("a") :
       (Stale(k) /\ NextTargeting(k, j))
         => After(j).target # Before(k).target

\* C18, amended: a target left in visited is replaced by the next call that
\* reaches targeting if it is in visited still; ATTACK calls on other cells
\* in between may have pushed it out.
C18_StaleTargetReplacedIfStill ==
  /\ TargetFresh
  /\ \A k \in 1..Done("a") : \A j \in k..Done("a") :
       (/\ Stale(k) /\ NextTargeting(k, j)
        /\ Contains(After(j).visited, Before(k).target))
         => After(j).target # Before(k).target

\* The first call takes a target, an ATTACK on the target's cell leaves it
\* in visited, and the third call, on the lighthouse now the bot's, takes
\* the other lighthouse as target.
C18_Witness ==
  /\ Done("a") = 3
  /\ Before(1).target = None
  /\ ~Stale(2)
  /\ After(2).action.Action = "ATTACK"
  /\ Stale(3)
  /\ NextTargeting(3, 3)
  /\ Contains(After(3).visited, Before(3).target)
  /\ After(3).target # None
  /\ After(3).target # Before(3).target
  /\ After(3).action.Action = "MOVE"

\* max(|dx|, |dy|)
Chebyshev(p, q) ==
  LET dx == IF p[1] >= q[1] THEN p[1] - q[1] ELSE q[1] - p[1]
      dy == IF p[2] >= q[2] THEN p[2] - q[2] ELSE q[2] - p[2]
  IN IF dx >= dy THEN dx ELSE dy

\* After call k and through call j, each observed position is the
\* destination the call before returned, and no lighthouse is listed at it.
MovesApplied(k, j) ==
  \A i \in (k + 1)..j :
     /\ feed[i].Position = After(i - 1).action.Destination
     /\ ~ListedAt(feed[i], feed[i].Position)

\* C19: when call k moves toward a target T at Chebyshev distance d > 0 and
\* the game applies every move, meeting no lighthouse, then each of the d
\* calls from k on keeps T and returns a MOVE whose destination is one
\* nearer to T, and the destination of the d-th is T.
C19_GreedyProgress ==
  \A k \in 1..Done("a") : \A j \in k..Done("a") :
     (/\ After(k).action.Action = "MOVE"
      /\ Chebyshev(feed[k].Position, After(k).target) > j - k
      /\ MovesApplied(k, j))
       => /\ After(j).target = After(k).target
          /\ After(j).action.Action = "MOVE"
          /\ Chebyshev(After(j).action.Destination, After(k).target)
               = Chebyshev(feed[k].Position, After(k).target) - (j - k) - 1

\* From (2, 1) toward (0, 0), two cells away on x and one on y: two moves,
\* and the third observation is on the target.
C19_Witness ==
  /\ Done("a") = 3
  /\ feed[1].Position = <<2, 1>>
  /\ After(1).action.Action = "MOVE"
  /\ After(1).target = <<0, 0>>
  /\ MovesApplied(1, 3)
  /\ After(2).target = <<0, 0>>
  /\ After(2).action.Destination = <<0, 0>>
  /\ feed[3].Position = <<0, 0>>

\* Calls k, k + 1 and k + 2 observe the bot at one position, with a
\* lighthouse listed there each time.
ThriceOn(k) ==
  \A i \in k..(k + 2) :
     /\ feed[i].Position = feed[k].Position
     /\ ListedAt(feed[i], feed[i].Position)

\* C20: every call on a lighthouse, attacking or not, appends the position
\* to visited even if visited holds it already, and a call off a lighthouse
\* appends nothing; so after three calls in a row on one lighthouse
\* position P visited is <<P, P, P>>, no other listed lighthouse is in it,
\* and a third call that replaces its target takes one of those others.
C20_NoDeduplication ==
  /\ \A k \in 1..Done("a") :
       LET old == Before(k).visited
           P == feed[k].Position
       IN IF ListedAt(feed[k], P)
          THEN After(k).visited =
                 IF Len(old) < 3 THEN old \o <<P>> ELSE <<old[2], old[3], P>>
          ELSE After(k).visited = old
  /\ \A k \in 1..(Done("a") - 2) :
       ThriceOn(k) =>
         LET P == feed[k].Position
             last == feed[k + 2].Lighthouses
             others == {i \in 1..Len(last) : last[i].Position # P}
         IN /\ After(k + 2).visited = <<P, P, P>>
            /\ \A i \in others :
                 ~Contains(After(k + 2).visited, last[i].Position)
            /\ (/\ After(k + 2).action.Action # "ATTACK"
                /\ others # {}
                /\ Before(k + 2).target \in {None, P})
                 => \E i \in others : After(k + 2).target = last[i].Position

\* visited holds (0, 0), (2, 0), (0, 0); the bot attacks the lighthouse of
\* (2, 0) twice and owns it at the third call, which takes (0, 0) as target.
C20_Witness ==
  /\ Done("a") = 3
  /\ Before(1).visited = <<<<0, 0>>, <<2, 0>>, <<0, 0>>>>
  /\ ThriceOn(1)
  /\ feed[1].Position = <<2, 0>>
  /\ After(1).action.Action = "ATTACK"
  /\ After(2).action.Action = "ATTACK"
  /\ After(3).action.Action = "MOVE"
  /\ After(3).visited = <<<<2, 0>>, <<2, 0>>, <<2, 0>>>>
  /\ After(3).target = <<0, 0>>

=============================================================================
